---- MODULE Spec2Model ----
(***************************************************************************)
(* pyrope: the parametrized evaluation engine (ParametrizedExercise), its  *)
(* scoring subsystem and the attempt runner (ExerciseRunner) of            *)
(* src/pyrope/core.py.                                                     *)
(*                                                                         *)
(* Conventions.  Python's None is the number None (-1); every other number *)
(* of the model is >= 0.  Names (input fields, parameters) are sequences   *)
(* of characters, so that the underscore convention of the_solution is     *)
(* computed on the name itself.  A Python dict keyed by names is a total   *)
(* function over the names of the model whose value None means "no such    *)
(* key", except for the ordered dict score_weights, a sequence of [k, v].  *)
(* A hook is user code: the value it returns is drawn by the caller of the *)
(* operator (the oracle o), its return shape is fixed by the exercise.     *)
(***************************************************************************)
EXTENDS Integers, Sequences, FiniteSets, TLC

VARIABLES
    ex,          \* the Exercise Definition (hooks' shapes, weights, ...)
    pe,          \* the ParametrizedExercise instance (caches, answers, totals)
    last,        \* what the last property read returned
    pc,          \* position of the runner: none, failed, created, run steps, awaiting
    runner,      \* ExerciseRunner fields: debug, callback, user_id; Submits handled
    received,    \* per registered observer, the messages it was called with
    widgets,     \* per input field, the widget's show_solution flag
    db,          \* the persistence collaborator: users, exercises, results
    cbCalls,     \* the invocations of the completion callback
    now          \* the clock read by datetime.utcnow()

vars == <<ex, pe, last, pc, runner, received, widgets, db, cbCalls, now>>

-----------------------------------------------------------------------------
(* Bounds of the model. *)

MaxHookScore == 1      \* a scores hook returns the numbers 0 and MaxHookScore
MaxWeight == 2         \* weights are 1 and MaxWeight
MaxReads == 2          \* failed reads of 'model' per engine instance
MaxSubmits == 2        \* Submit messages delivered to one runner
MaxObservers == 2      \* observers registered with one runner
MaxRuns == 2           \* calls of run() on one runner
MaxCalls == 3          \* calls of one runner's methods after its construction
MaxClock == 3          \* readings of the clock
Grid == 2              \* a difficulty is a multiple of 1/Grid
MaxChildren == 3       \* children of a Weighted Collection node
MaxClasses == 2        \* Exercise subclasses in the MRO of an exercise's class

None == -1

-----------------------------------------------------------------------------
(* Names. *)

FieldA == <<"a", "_">>
FieldB == <<"b">>
FieldNames == {FieldA, FieldB}
ParamA == <<"a">>
ParamNames == {ParamA}
NoneKey == <<>>

Range(s) == {s[i] : i \in DOMAIN s}

Values == {1, 2}

\* str.endswith('_')
EndsWithUnderscore(name) == Len(name) > 0 /\ name[Len(name)] = "_"

\* name[:-1]
StripLast(name) == SubSeq(name, 1, Len(name) - 1)

RECURSIVE SumOver(_, _)
SumOver(S, f) ==
    IF S = {} THEN 0
    ELSE LET x == CHOOSE y \in S : TRUE IN f[x] + SumOver(S \ {x}, f)

NoFields == [f \in FieldNames |-> None]

-----------------------------------------------------------------------------
(* Results of a property read: the engine afterwards, and the error raised. *)

Ok(p) == [pe |-> p, err |-> ""]

Raise(p, e) == [pe |-> p, err |-> e]

\* A fresh ParametrizedExercise (core.py:230-243): nothing cached, no totals.
NewEngine ==
    [ parameters    |-> [cached |-> FALSE, v |-> [n \in ParamNames |-> None]],
      model         |-> FALSE,
      the_solution  |-> [cached |-> FALSE, v |-> NoFields],
      a_solution    |-> [cached |-> FALSE, v |-> NoFields],
      score_weights |-> [cached |-> FALSE, v |-> <<>>],
      max_scores    |-> [cached |-> FALSE, v |-> NoFields],
      total         |-> None,
      max_total     |-> None,
      correct       |-> [f \in FieldNames |-> "None"],
      answers       |-> NoFields,
      started_at    |-> None,
      submitted_at  |-> None,
      nParameters   |-> 0,
      nProblem      |-> 0,
      hookPars      |-> {} ]

\* The hook 'name' is invoked with the Parameter Sample of the engine.
Invoked(p, name) == [p EXCEPT !.hookPars = @ \cup {<<name, p.parameters.v>>}]

\* The hooks that apply() binds to the Parameter Sample.
HookNames ==
    {"problem", "the_solution", "a_solution", "scores", "hints", "preamble", "feedback"}

\* No hook's signature has a parameter without a default.
NoRequired == [h \in HookNames |-> {}]

\* apply(hook, parameters | ...): a parameter of the hook's signature that has
\* no default and is no key of the sample raises IllPosedError before the hook
\* is called; e.required[name] are the hook's parameters without default other
\* than the input fields.
apply(e, p, name) ==
    IF \E par \in e.required[name] : p.parameters.v[par] = None
    THEN Raise(p, "IllPosedError")
    ELSE Ok(Invoked(p, name))

\* The signature of the hook 'name' alone has a parameter without default, a.
RequiredBy(name) == [NoRequired EXCEPT ![name] = {ParamA}]

\* cached_property parameters: the hook is invoked on the first read only.
parametersUncached(e, p, o) ==
    Ok([p EXCEPT !.parameters = [cached |-> TRUE, v |-> o.sample],
                 !.nParameters = IF @ < MaxReads THEN @ + 1 ELSE @])
parameters(e, p, o) ==
    IF p.parameters.cached THEN Ok(p)
    ELSE Ok([p EXCEPT !.parameters = [cached |-> TRUE, v |-> o.sample],
                      !.nParameters = @ + 1])

\* model without the validation of the output fields.
modelUnvalidated(e, p, o) ==
    IF p.model THEN Ok(p)
    ELSE LET Keep(a) == IF a.err # "" THEN a
                        ELSE Ok([a.pe EXCEPT !.nProblem = @ + 1, !.model = TRUE])
         IN  CHOOSE r \in {Keep(apply(e, p1, "problem")) :
                              p1 \in {parameters(e, p, o).pe}} : TRUE

\* cached_property model: the problem hook, then the output field validation;
\* a raise leaves nothing cached.
model(e, p, o) ==
    IF p.model THEN Ok(p)
    ELSE LET Validate(a) ==
                 IF a.err # "" THEN a
                 ELSE IF \E ofield \in e.ofields : a.pe.parameters.v[ofield] = None
                 THEN Raise([a.pe EXCEPT !.nProblem = @ + 1], "IllPosedError")
                 ELSE Ok([a.pe EXCEPT !.nProblem = @ + 1, !.model = TRUE])
         IN  CHOOSE r \in {Validate(apply(e, p1, "problem")) :
                              p1 \in {parameters(e, p, o).pe}} : TRUE

\* dict union d1 | d2 of two dicts keyed by field names.
Union(d1, d2) == [f \in FieldNames |-> IF d2[f] # None THEN d2[f] ELSE d1[f]]

\* The hook's return with a bare value taken for no solution at all.
ExplicitDictBareDropped(e, h) ==
    IF h.t = "dict" THEN h.d ELSE NoFields

\* What a the_solution / a_solution hook returns, as the dict the code makes of it.
ExplicitDict(e, h) ==
    IF h.t = "none" THEN NoFields
    ELSE IF h.t = "bare"
         THEN [f \in FieldNames |-> IF f = e.ifields[1] THEN h.v ELSE None]
         ELSE h.d

\* The solutions of the input fields among the keys of the dict 'solution'.
OfIfields(e, solution) ==
    [f \in FieldNames |-> IF f \in Range(e.ifields) THEN solution[f] ELSE None]

\* The implicit solutions taken even for fields with an explicit solution.
ImplicitAlways(e, pars, explicit) ==
    [f \in FieldNames |->
        IF /\ f \in Range(e.ifields)
           /\ EndsWithUnderscore(f)
           /\ StripLast(f) \in ParamNames
           /\ pars[StripLast(f)] # None
        THEN pars[StripLast(f)]
        ELSE None]

\* The implicit solutions: the parameter named like a field without its
\* trailing underscore, unless the field has an explicit solution.
Implicit(e, pars, explicit) ==
    [f \in FieldNames |->
        IF /\ f \in Range(e.ifields)
           /\ EndsWithUnderscore(f)
           /\ StripLast(f) \in ParamNames
           /\ pars[StripLast(f)] # None
           /\ explicit[f] = None
        THEN pars[StripLast(f)]
        ELSE None]

\* cached_property the_solution.
the_solution(e, p, o) ==
    IF p.the_solution.cached THEN Ok(p)
    ELSE LET h == e.the_solution
             Merge(m) ==
                 IF m.err # "" THEN m
                 ELSE IF h.t = "bare" /\ Len(e.ifields) # 1
                 THEN Raise(m.pe, "IllPosedError")
                 ELSE LET explicit == ExplicitDict(e, h)
                          implicit == Implicit(e, m.pe.parameters.v, explicit)
                      IN  Ok([m.pe EXCEPT !.the_solution =
                                 [cached |-> TRUE,
                                  v |-> OfIfields(e, Union(explicit, implicit))]])
         IN  CHOOSE r \in {Merge(IF a.err # "" THEN a ELSE model(e, a.pe, o)) :
                              a \in {apply(e, parameters(e, p, o).pe, "the_solution")}} :
                 TRUE

\* cached_property a_solution.
a_solution(e, p, o) ==
    IF p.a_solution.cached THEN Ok(p)
    ELSE LET h == e.a_solution
             Store(m) ==
                 IF m.err # "" THEN m
                 ELSE IF h.t = "bare" /\ Len(e.ifields) # 1
                 THEN Raise(m.pe, "IllPosedError")
                 ELSE Ok([m.pe EXCEPT !.a_solution =
                             [cached |-> TRUE, v |-> OfIfields(e, ExplicitDict(e, h))]])
         IN  CHOOSE r \in {Store(m) :
                              m \in {IF a.err # "" THEN a ELSE model(e, a.pe, o) :
                                        a \in {apply(e, parameters(e, p, o).pe,
                                                     "a_solution")}}} : TRUE

\* The input field's own solution: the reference solution if it has one,
\* else the candidate solution.
IfieldSolution(p, f) ==
    IF p.the_solution.v[f] # None THEN p.the_solution.v[f] ELSE p.a_solution.v[f]

\* property solution: triggers both solutions, returns the fields' solutions.
solution(e, p, o) ==
    LET Both(a) ==
            IF a.err # "" THEN [pe |-> a.pe, err |-> a.err, val |-> NoFields]
            ELSE [pe |-> a.pe, err |-> "",
                  val |-> [f \in FieldNames |-> IfieldSolution(a.pe, f)]]
        Second(t) ==
            IF t.err # "" THEN [pe |-> t.pe, err |-> t.err, val |-> NoFields]
            ELSE CHOOSE r \in {Both(a) : a \in {a_solution(e, t.pe, o)}} : TRUE
    IN  CHOOSE r \in {Second(t) : t \in {the_solution(e, p, o)}} : TRUE

\* dict lookup in the ordered dict score_weights.
WeightOfFirst(sw, k) == sw[1].v
Weight(sw, k) == sw[CHOOSE i \in DOMAIN sw : sw[i].k = k].v

\* name in weights
HasKeyNever(sw, k) == FALSE
HasKey(sw, k) == \E i \in DOMAIN sw : sw[i].k = k

\* The fields of 'fields' that are no key of sw, in field order, each with 1.0.
RECURSIVE Missing(_, _)
Missing(fields, sw) ==
    IF fields = <<>> THEN <<>>
    ELSE IF HasKey(sw, Head(fields)) THEN Missing(Tail(fields), sw)
         ELSE <<[k |-> Head(fields), v |-> 1]>> \o Missing(Tail(fields), sw)

\* cached_property score_weights.  weights: the exercise's own weights after
\* the read (a dict is copied before it is filled up).
score_weights(e, p, o) ==
    IF p.score_weights.cached THEN [pe |-> p, err |-> "", weights |-> e.weights]
    ELSE LET w == e.weights
             Normalize(m) ==
                 IF m.err # "" THEN [pe |-> m.pe, err |-> m.err, weights |-> w]
                 ELSE IF /\ w.kind = "dict"
                         /\ \E i \in DOMAIN w.m : w.m[i].k \notin Range(e.ifields)
                 THEN [pe |-> m.pe, err |-> "ValueError", weights |-> w]
                 ELSE [pe |-> [m.pe EXCEPT !.score_weights =
                             [cached |-> TRUE,
                              v |-> IF w.kind = "scalar"
                                    THEN IF Len(e.ifields) = 0
                                         THEN <<[k |-> NoneKey, v |-> w.w]>>
                                         ELSE [i \in DOMAIN e.ifields |->
                                                  [k |-> e.ifields[i], v |-> w.w]]
                                    ELSE w.m \o Missing(e.ifields, w.m)]],
                       err |-> "", weights |-> w]
         IN  CHOOSE r \in {Normalize(m) : m \in {model(e, p, o)}} : TRUE

-----------------------------------------------------------------------------
(* The scoring subsystem. *)

\* ifield.auto_max_score of the Problem Model.
auto_max_score(e, f) == e.auto_max[f]

\* ifield.auto_score of the Problem Model: the automatic maximum for an answer
\* equal to the field's solution, nothing otherwise.
auto_score(e, p, f) ==
    IF p.answers[f] # None /\ p.answers[f] = IfieldSolution(p, f)
    THEN auto_max_score(e, f) ELSE 0

\* list(self.score_weights.values())[0]
FirstWeight(sw) == sw[1].v

\* What the scores hook of e may return: the shape is the exercise's, the
\* numbers are the hook's business.
HookReturns(e) ==
    LET sh == e.scores.shape
        nums == {0, MaxHookScore}
    IN  IF sh = "none" THEN {[t |-> "none", v |-> None, m |-> None, d |-> NoFields]}
        ELSE IF sh \in {"num", "pair"}
        THEN {[t |-> sh, v |-> n, m |-> IF sh = "pair" THEN e.scores.max ELSE None,
               d |-> NoFields] : n \in nums}
        ELSE {[t |-> "dict", v |-> None, m |-> None, d |-> d] :
                 d \in {g \in [FieldNames -> nums \cup {None}] :
                           \A f \in FieldNames :
                               (g[f] = None) <=> (e.scores.entry[f] = "absent")}}

\* The keys of the dict the scores hook returns that are no input field.
StrayKeys(e) ==
    {f \in FieldNames \ Range(e.ifields) : e.scores.entry[f] # "absent"}

\* The maximal score of one entry of a returned dict: the number, or the second
\* component of a pair.
EntryMax(e, f, v) == IF e.scores.entry[f] = "pair" THEN e.scores.max ELSE v

\* The maximal scores once the solution s and the weights w are there.  The
\* entries of a returned dict are weighted one by one, whatever their key: a
\* key that is no input field is no key of score_weights (KeyError), and
\* nothing is cached.
MaxScoresOf(e, s, w, o) ==
    LET F == Range(e.ifields)
        sh == e.scores.shape
        sw == w.pe.score_weights.v
        Store(perField, joint) ==
            Ok([w.pe EXCEPT
                   !.max_scores =
                       [cached |-> TRUE,
                        v |-> IF sh \in {"num", "pair"} /\ Len(e.ifields) = 1
                              THEN [f \in FieldNames |-> IF f \in F THEN joint ELSE None]
                              ELSE perField],
                   !.max_total =
                       IF sh \in {"num", "pair"} THEN joint ELSE SumOver(F, perField)])
    IN  IF w.err # "" THEN w
        ELSE IF sh \in {"num", "pair"} /\ sw = <<>> THEN Raise(w.pe, "IndexError")
        ELSE IF StrayKeys(e) # {} THEN Raise(w.pe, "KeyError")
        ELSE CHOOSE r \in
                 {Store(perField,
                        IF sh = "pair" THEN e.scores.max * FirstWeight(sw)
                        ELSE IF sh = "num" THEN o.mx.v * FirstWeight(sw)
                        ELSE None) :
                     perField \in
                         {[f \in FieldNames |->
                              IF f \notin F THEN None
                              ELSE IF sh = "none"
                              THEN auto_max_score(e, f) * Weight(sw, f)
                              ELSE IF sh = "dict"
                              THEN (IF \/ e.scores.entry[f] = "absent"
                                       \/ /\ s.val[f] = None
                                          /\ e.scores.entry[f] = "num"
                                    THEN auto_max_score(e, f)
                                    ELSE EntryMax(e, f, o.mx.d[f])) * Weight(sw, f)
                              ELSE None]}} : TRUE

\* cached_property max_scores; o.mx is what the hook returns for the solution.
max_scores(e, p, o) ==
    IF p.max_scores.cached THEN Ok(p)
    ELSE LET F == Range(e.ifields)
             sh == e.scores.shape
             Weigh(s, p1) ==
                 IF sh = "num" /\ \E f \in F : s.val[f] = None
                 THEN Raise(p1, "IllPosedError")
                 ELSE CHOOSE r \in
                          {MaxScoresOf(e, s, w, o) :
                              w \in {IF /\ sh \in {"none", "dict"}
                                        /\ F = {} /\ StrayKeys(e) = {}
                                     THEN Ok(p1)
                                     ELSE score_weights(e, p1, o)}} : TRUE
             Hook(s) ==
                 IF s.err # "" THEN Raise(s.pe, s.err)
                 ELSE CHOOSE r \in {IF a.err # "" THEN a ELSE Weigh(s, a.pe) :
                                       a \in {apply(e, s.pe, "scores")}} : TRUE
         IN  CHOOSE r \in {Hook(s) : s \in {solution(e, p, o)}} : TRUE

\* A read of 'scores' that raised.
ScoresRaise(p, e, calls) == [pe |-> p, err |-> e, val |-> NoFields, calls |-> calls]

\* The input fields with a non-empty answer.
Answered(e, p) == {f \in Range(e.ifields) : p.answers[f] # None}

\* A number or a pair scores the fields jointly unless there is one field.
JointScoring(e) == e.scores.shape \in {"num", "pair"} /\ Len(e.ifields) # 1

\* In joint scoring every input field needs a non-empty answer.
AllAnsweredSome(e, p) == Answered(e, p) # {}
AllAnswered(e, p) == Answered(e, p) = Range(e.ifields)

\* The fill-up that overlooks the defaults of the hook's signature.
FillValuesIgnoringDefaults(e, p) ==
    {f \in Range(e.ifields) : f \notin Answered(e, p)}

\* The fields given the dummy input: no answer, no default in the signature.
FillValues(e, p) ==
    {f \in Range(e.ifields) : f \notin e.scores.defaults /\ f \notin Answered(e, p)}

\* The entry of field f in the dict the hook returned, cast: 0.0 for a field
\* given the dummy input, None for a field the dict lacks.
CastScore(e, p, f, out) ==
    IF e.scores.shape = "dict" /\ e.scores.entry[f] # "absent"
    THEN IF f \in FillValues(e, p) THEN 0 ELSE out.d[f]
    ELSE None

\* Joint input field scoring, after the hook was invoked with the dummy input.
JointScores(e, p1, o) ==
    LET Total(w) ==
            IF w.err # "" THEN ScoresRaise(w.pe, w.err, <<"dummy", "answers">>)
            ELSE IF w.pe.score_weights.v = <<>>
            THEN ScoresRaise(w.pe, "IndexError", <<"dummy", "answers">>)
            ELSE [pe |-> [w.pe EXCEPT
                             !.total = o.out.v * FirstWeight(w.pe.score_weights.v)],
                  err |-> "", val |-> NoFields, calls |-> <<"dummy", "answers">>]
    IN  IF ~AllAnswered(e, p1)
        THEN [pe |-> [p1 EXCEPT !.total = 0], err |-> "", val |-> NoFields,
              calls |-> <<"dummy">>]
        ELSE CHOOSE r \in {Total(w) : w \in {score_weights(e, p1, o)}} : TRUE

\* Input field-wise scoring, after the hook was invoked with the dummy input.
\* Only the input fields' entries of a returned dict are cast, zeroed and
\* weighted; an entry whose key is no input field stays in the returned mapping
\* as the hook gave it and is summed up with the others: a number is added to
\* the total, a pair makes sum() raise TypeError.
FieldScores(e, p1, o) ==
    LET F == Range(e.ifields)
        calls == <<"dummy", "answers">>
        Sum(w, perField) ==
            IF \E f \in StrayKeys(e) : e.scores.entry[f] = "pair"
            THEN ScoresRaise(w.pe, "TypeError", calls)
            ELSE [pe |-> [w.pe EXCEPT
                             !.total = SumOver(F \cup StrayKeys(e), perField)],
                  err |-> "", val |-> perField, calls |-> calls]
        Score(w) ==
            IF w.err # "" THEN ScoresRaise(w.pe, w.err, calls)
            ELSE IF e.scores.shape \in {"num", "pair"}
            THEN \* one input field, scored by a number or a pair
                 LET name == e.ifields[1]
                     total == o.out.v * Weight(w.pe.score_weights.v, name)
                 IN  [pe |-> [w.pe EXCEPT !.total = total], err |-> "",
                      val |-> [f \in FieldNames |-> IF f = name THEN total ELSE None],
                      calls |-> calls]
            ELSE CHOOSE r \in
                     {Sum(w, perField) :
                         perField \in
                             {[f \in FieldNames |->
                                  IF f \in StrayKeys(e) THEN o.out.d[f]
                                  ELSE IF f \notin F THEN None
                                  ELSE LET c == CastScore(e, w.pe, f, o.out)
                                       IN  (IF c = None THEN auto_score(e, w.pe, f)
                                            ELSE c)
                                           * Weight(w.pe.score_weights.v, f)]}} : TRUE
    IN  CHOOSE r \in {Score(w) : w \in {IF F = {} THEN Ok(p1)
                                        ELSE score_weights(e, p1, o)}} : TRUE

\* property scores (not cached: computed on every read); o.out is what the hook
\* returns for the answers.  calls: the hook's invocations, by what it was given.
scores(e, p, o) ==
    LET Hook(s) ==
            IF s.err # "" THEN ScoresRaise(s.pe, s.err, <<>>)
            ELSE CHOOSE r \in {IF a.err # "" THEN ScoresRaise(a.pe, a.err, <<>>)
                               ELSE IF JointScoring(e) THEN JointScores(e, a.pe, o)
                               ELSE FieldScores(e, a.pe, o) :
                                  a \in {apply(e, s.pe, "scores")}} : TRUE
    IN  CHOOSE r \in {Hook(s) : s \in {solution(e, p, o)}} : TRUE

\* property total_score: triggers 'scores', returns the total it left.
total_score(e, p, o) ==
    LET Total(r) == [pe |-> r.pe, err |-> r.err, val |-> r.pe.total]
    IN  CHOOSE t \in {Total(r) : r \in {scores(e, p, o)}} : TRUE

\* property max_total_score: triggers 'max_scores', returns the total it left.
max_total_score(e, p, o) ==
    LET Total(r) == [pe |-> r.pe, err |-> r.err, val |-> r.pe.max_total]
    IN  CHOOSE t \in {Total(r) : r \in {max_scores(e, p, o)}} : TRUE

\* property correct: a field's verdict is computed while the field has none;
\* scores: the Score Mapping this read computed.
correct(e, p, o) ==
    LET Failed(r) ==
            [pe |-> r.pe, err |-> r.err, val |-> p.correct, scores |-> NoFields]
        Verdicts(sc) ==
            IF sc.err # "" THEN Failed(sc)
            ELSE CHOOSE r \in
                     {[pe |-> [sc.pe EXCEPT !.correct = verdict], err |-> "",
                       val |-> verdict, scores |-> sc.val] :
                         verdict \in
                             {[f \in FieldNames |->
                                  IF /\ f \in Range(e.ifields)
                                     /\ sc.pe.correct[f] = "None"
                                     /\ sc.val[f] # None
                                     /\ sc.pe.max_scores.v[f] # None
                                  THEN IF sc.val[f] = sc.pe.max_scores.v[f]
                                       THEN "True" ELSE "False"
                                  ELSE sc.pe.correct[f]]}} : TRUE
        Scores(m) ==
            IF m.err # "" THEN Failed(m)
            ELSE CHOOSE r \in {Verdicts(sc) : sc \in {scores(e, m.pe, o)}} : TRUE
    IN  CHOOSE r \in {Scores(m) : m \in {max_scores(e, p, o)}} : TRUE

\* answers.setter: the answers are stored in the Problem Model.
set_answers(e, p, a, o) ==
    LET Store(m) == IF m.err # "" THEN m ELSE Ok([m.pe EXCEPT !.answers = a])
    IN  CHOOSE r \in {Store(m) : m \in {model(e, p, o)}} : TRUE

-----------------------------------------------------------------------------
(* Exercise Definitions and what their hooks may return. *)

NoSolution == [t |-> "none", v |-> None, d |-> NoFields]

\* The automatic maximal scores of the input fields' value types.
AutoMax == [f \in FieldNames |-> IF f = FieldA THEN 2 ELSE 1]

NoA == [n \in ParamNames |-> None]

IfieldSeqs == {<<>>, <<FieldA>>, <<FieldA, FieldB>>}

\* The weight specifications whose keys are input fields of ifs.
WeightSpecs(ifs) ==
    {[kind |-> "scalar", w |-> w, m |-> <<>>] : w \in {1, MaxWeight}}
    \cup {[kind |-> "dict", w |-> None, m |-> m] :
            m \in {d \in {<<>>, <<[k |-> FieldA, v |-> MaxWeight]>>,
                          <<[k |-> FieldB, v |-> MaxWeight], [k |-> FieldA, v |-> 1]>>} :
                      \A i \in DOMAIN d : d[i].k \in Range(ifs)}}

\* The scores hooks: return shape, the entries of a returned dict (its keys are
\* the hook's business: an entry of a name that is no input field of ifs is a
\* stray key), the input fields the signature gives a default, the constant
\* maximum of a pair.
ScoresHooks(ifs) ==
    LET dflts == {D \in {{}, {FieldA}} : D \subseteq Range(ifs)}
        none == [f \in FieldNames |-> "absent"]
    IN  {[shape |-> "none", entry |-> none, defaults |-> {}, max |-> MaxHookScore]}
        \cup {[shape |-> sh, entry |-> none, defaults |-> D, max |-> MaxHookScore] :
                 sh \in {"num", "pair"},
                 D \in {D \in dflts : D = {} \/ Len(ifs) = 1}}
        \cup {[shape |-> "dict", entry |-> en, defaults |-> D, max |-> MaxHookScore] :
                 en \in {g \in [FieldNames -> {"absent", "num", "pair"}] :
                            g[FieldB] # "pair"},
                 D \in dflts}

\* Explicit solutions: none, or the value 1 for every input field.
FullSolution(ifs) ==
    [t |-> "dict", v |-> None,
     d |-> [f \in FieldNames |-> IF f \in Range(ifs) THEN 1 ELSE None]]

WithA == [n \in ParamNames |-> 1]

\* No solution at all, the implicit solution of FieldA only, a solution for
\* every input field.
SolutionSpecs(ifs) ==
    {[the |-> NoSolution, par |-> NoA], [the |-> NoSolution, par |-> WithA],
     [the |-> FullSolution(ifs), par |-> NoA]}

\* The exercises of the scoring subsystem: every hook shape, weight
\* specification and solution coverage; the parameters hook is deterministic.
ScoreExercises ==
    UNION {{[ifields |-> ifs, ofields |-> {}, parOut |-> {ss.par},
             the_solution |-> ss.the, a_solution |-> NoSolution, weights |-> w,
             scores |-> h, auto_max |-> AutoMax, source |-> TRUE,
             required |-> NoRequired] :
               ss \in SolutionSpecs(ifs), w \in WeightSpecs(ifs),
               h \in ScoresHooks(ifs)} : ifs \in IfieldSeqs}

\* The answer mappings of the input fields ifs: None is the empty answer, 1 the
\* answer that equals the solution where there is one; FieldA also takes
\* another answer.
AnswerMaps(ifs) ==
    {g \in [FieldNames -> Values \cup {None}] :
        /\ \A f \in FieldNames \ Range(ifs) : g[f] = None
        /\ g[FieldB] \in {1, None}}

-----------------------------------------------------------------------------
(* Reads of the engine's properties. *)

NoReturn == [t |-> "none", v |-> None, m |-> None, d |-> NoFields]

NoCorrect == [f \in FieldNames |-> "None"]

NoRead ==
    [op |-> "", err |-> "", pars |-> NoA, scores |-> NoFields, total |-> None,
     correct |-> NoCorrect, calls |-> <<>>, out |-> NoReturn, solution |-> NoFields]

\* What the hooks return during one read: the Parameter Sample if the
\* parameters hook is invoked, the scores hook's returns for the solution (mx)
\* and for the answers (out).
Oracles(e, p, needMx, needOut) ==
    {[sample |-> s, mx |-> m, out |-> t] :
        s \in (IF p.parameters.cached THEN {p.parameters.v} ELSE e.parOut),
        m \in (IF needMx /\ ~p.max_scores.cached THEN HookReturns(e) ELSE {NoReturn}),
        t \in (IF needOut THEN HookReturns(e) ELSE {NoReturn})}

\* A read of 'model' that fails is repeated at most MaxReads times.
CanRead == pe.model \/ pe.nProblem < MaxReads

Idle == UNCHANGED <<ex, pc, runner, received, widgets, db, cbCalls, now>>

\* pexercise.scores
ReadScores ==
    /\ CanRead
    /\ \E o \in Oracles(ex, pe, FALSE, TRUE) :
          \E r \in {scores(ex, pe, o)} :
              /\ pe' = r.pe
              /\ last' = [NoRead EXCEPT !.op = "scores", !.err = r.err,
                                        !.scores = r.val, !.calls = r.calls,
                                        !.out = IF Len(r.calls) = 2 THEN o.out
                                                ELSE NoReturn]
    /\ Idle

\* pexercise.max_scores
ReadMaxScores ==
    /\ CanRead
    /\ \E o \in Oracles(ex, pe, TRUE, FALSE) :
          \E r \in {max_scores(ex, pe, o)} :
              /\ pe' = r.pe
              /\ last' = [NoRead EXCEPT !.op = "max_scores", !.err = r.err]
    /\ Idle

\* pexercise.correct
ReadCorrect ==
    /\ CanRead
    /\ \E o \in Oracles(ex, pe, TRUE, TRUE) :
          \E r \in {correct(ex, pe, o)} :
              /\ pe' = r.pe
              /\ last' = [NoRead EXCEPT !.op = "correct", !.err = r.err,
                                        !.correct = r.val, !.scores = r.scores]
    /\ Idle

\* pexercise.score_weights
ReadScoreWeights ==
    /\ CanRead
    /\ \E o \in Oracles(ex, pe, FALSE, FALSE) :
          \E r \in {score_weights(ex, pe, o)} :
              /\ pe' = r.pe
              /\ ex' = [ex EXCEPT !.weights = r.weights]
              /\ last' = [NoRead EXCEPT !.op = "score_weights", !.err = r.err]
    /\ UNCHANGED <<pc, runner, received, widgets, db, cbCalls, now>>

\* The position of the runner: a step of its life, and the widget it is at.
At(s) == [step |-> s, i |-> 0]

\* pexercise.id of an exercise without source text, and a user_id never set.
NoId == "None"

\* No runner: the engine is used on its own.
NoRunner ==
    /\ pc = At("none")
    /\ runner = [debug |-> FALSE, callback |-> FALSE, user_id |-> NoId, submits |-> 0]
    /\ received = <<>>
    /\ widgets = [f \in FieldNames |-> FALSE]
    /\ db = [users |-> {}, exercises |-> {}, results |-> <<>>, ops |-> <<>>]
    /\ cbCalls = <<>>
    /\ now = 0

\* The scoring of one answer mapping: a fresh engine for an exercise of
\* ScoreExercises whose answers are given.
InitScore ==
    /\ ex \in ScoreExercises
    /\ \E a \in AnswerMaps(ex.ifields), o \in Oracles(ex, NewEngine, FALSE, FALSE) :
          pe = set_answers(ex, NewEngine, a, o).pe
    /\ last = NoRead
    /\ NoRunner

NextScore == ReadScores \/ ReadCorrect

SpecScore == InitScore /\ [][NextScore]_vars

\* The weights on their own: a fresh engine for an exercise of ScoreExercises,
\* whose score_weights are read directly or on behalf of max_scores.
InitWeights ==
    /\ ex \in ScoreExercises
    /\ pe = NewEngine
    /\ last = NoRead
    /\ NoRunner

NextWeights == ReadScoreWeights \/ ReadMaxScores

SpecWeights == InitWeights /\ [][NextWeights]_vars

-----------------------------------------------------------------------------
(* The engine on its own: any sequence of property reads and answer changes. *)

\* Exercises with one input field whose parameters hook is stochastic and whose
\* Problem Model may have an output field the Parameter Sample lacks.
EngineExercises ==
    {[ifields |-> <<FieldA>>, ofields |-> ofs, parOut |-> po,
      the_solution |-> NoSolution, a_solution |-> NoSolution,
      weights |-> [kind |-> "scalar", w |-> MaxWeight, m |-> <<>>],
      scores |-> h, auto_max |-> AutoMax, source |-> TRUE, required |-> rq] :
        ofs \in SUBSET ParamNames,
        rq \in {NoRequired, RequiredBy("problem")},
        po \in {{NoA, WithA}, {WithA, [n \in ParamNames |-> 2]}},
        h \in {g \in ScoresHooks(<<FieldA>>) : g.defaults = {}}}

\* pexercise.parameters
ReadParameters ==
    /\ \E o \in Oracles(ex, pe, FALSE, FALSE) :
          \E r \in {parameters(ex, pe, o)} :
              /\ pe' = r.pe
              /\ last' = [NoRead EXCEPT !.op = "parameters", !.err = r.err,
                                        !.pars = r.pe.parameters.v]
    /\ Idle

\* pexercise.model
ReadModel ==
    /\ CanRead
    /\ \E o \in Oracles(ex, pe, FALSE, FALSE) :
          \E r \in {model(ex, pe, o)} :
              /\ pe' = r.pe
              /\ last' = [NoRead EXCEPT !.op = "model", !.err = r.err]
    /\ Idle

\* pexercise.answers = a
SetAnswers ==
    /\ CanRead
    /\ \E a \in AnswerMaps(ex.ifields), o \in Oracles(ex, pe, FALSE, FALSE) :
          \E r \in {set_answers(ex, pe, a, o)} :
              /\ pe' = r.pe
              /\ last' = [NoRead EXCEPT !.op = "answers", !.err = r.err]
    /\ Idle

InitEngine ==
    /\ ex \in EngineExercises
    /\ pe = NewEngine
    /\ last = NoRead
    /\ NoRunner

NextEngine ==
    \/ ReadParameters
    \/ ReadModel
    \/ SetAnswers
    \/ ReadScores
    \/ ReadMaxScores
    \/ ReadCorrect

SpecEngine == InitEngine /\ [][NextEngine]_vars

-----------------------------------------------------------------------------
(* The attempt runner: construction, run(), the internal observer, finish(). *)

\* global_parameters['user_name'] as the engine's constructor defaults it; a
\* user's database id is identified with the user's name.
UserName == "John Doe"

\* cached_property id: None without source text, else the digest of the source.
idOfAnySource(e) == "sha3_256(source)"
id(e) == IF e.source THEN "sha3_256(source)" ELSE NoId

\* A message of pyrope.messages: its class, the attribute or template it names,
\* the widget it addresses (0: none), its payload where the model needs it.
Msg(kind, name, widget, val) ==
    [kind |-> kind, name |-> name, widget |-> widget, val |-> val]

\* notify: `for observer in self.observers: observer(msg)`; this is the call of
\* the k-th registered observer.
notifyFirstOnly(rcv, k, msg) ==
    IF k = 1 THEN [rcv EXCEPT ![k] = Append(@, msg)] ELSE rcv
notify(rcv, k, msg) == [rcv EXCEPT ![k] = Append(@, msg)]

\* What a method of the runner has done so far, and the exception that ended it.
Frame(p, rcv, w, d, cb) ==
    [pe |-> p, received |-> rcv, widgets |-> w, db |-> d, cbCalls |-> cb, err |-> ""]

\* The exception err ends the method, the engine being left as p.
Fail(fr, p, err) == [fr EXCEPT !.pe = p, !.err = err]

\* publish_solutions that triggers the solutions and shows none.
publish_solutionsHidden(e, fr, o) ==
    LET Keep(s) == IF s.err # "" THEN Fail(fr, s.pe, s.err) ELSE [fr EXCEPT !.pe = s.pe]
    IN  CHOOSE r \in {Keep(s) : s \in {solution(e, fr.pe, o)}} : TRUE

\* publish_solutions: the solutions are triggered, every widget shows its own.
publish_solutions(e, fr, o) ==
    LET Show(s) ==
            IF s.err # "" THEN Fail(fr, s.pe, s.err)
            ELSE [fr EXCEPT !.pe = s.pe,
                            !.widgets = [f \in FieldNames |-> f \in Range(e.ifields)]]
    IN  CHOOSE r \in {Show(s) : s \in {solution(e, fr.pe, o)}} : TRUE

\* ExerciseRunner.__init__: the engine is made and its widgets (the model) are
\* read; without an id nothing else happens, else the user and the exercise are
\* ensured, the exercise with the maximal total score.  The user is added to
\* the session before the maximal total score is read: if that read raises,
\* the session has the add and is never committed.
RunnerInit(e, d, o) ==
    LET fr == Frame(NewEngine, <<>>, [f \in FieldNames |-> FALSE], d, <<>>)
        AddUser == IF UserName \in d.users THEN <<>> ELSE <<"add User">>
        Ensure(m, mts) ==
            IF mts.err # ""
            THEN Fail([fr EXCEPT !.db.ops = @ \o AddUser], mts.pe, mts.err)
            ELSE [fr EXCEPT
                     !.pe = mts.pe,
                     !.db = [d EXCEPT
                                !.users = @ \cup {UserName},
                                !.exercises =
                                    IF \E x \in @ : x.id = id(e) THEN @
                                    ELSE @ \cup {[id |-> id(e),
                                                  score_maximum |-> mts.val]},
                                !.ops = @ \o AddUser
                                          \o (IF \E x \in d.exercises : x.id = id(e)
                                              THEN <<>> ELSE <<"add Exercise">>)
                                          \o <<"commit">>]]
        Session(m) ==
            IF m.err # "" THEN Fail(fr, m.pe, m.err)
            ELSE IF id(e) = NoId THEN [fr EXCEPT !.pe = m.pe]
            ELSE CHOOSE r \in
                     {Ensure(m, mts) :
                         mts \in {IF \E x \in d.exercises : x.id = id(e)
                                  THEN [pe |-> m.pe, err |-> "", val |-> None]
                                  ELSE max_total_score(e, m.pe, o)}} : TRUE
    IN  CHOOSE r \in {Session(m) : m \in {model(e, NewEngine, o)}} : TRUE

\* A weight mapping with a key that is no input field of <<FieldA>>.
StrayWeights == [kind |-> "dict", w |-> None, m |-> <<[k |-> FieldB, v |-> MaxWeight]>>]

\* The exercises run by the runner: one or two input fields (FieldA with an
\* implicit solution) under automatic scoring; the weight is a scalar, or for
\* one field a mapping with a stray key; with one field the exercise has
\* source text or none, with two it has none.
RunnerExercises ==
    {x \in [ifields : {<<FieldA>>, <<FieldA, FieldB>>}, ofields : {{}},
            parOut : {{WithA}}, the_solution : {NoSolution},
            a_solution : {NoSolution},
            weights : {[kind |-> "scalar", w |-> MaxWeight, m |-> <<>>], StrayWeights},
            scores : {g \in ScoresHooks(<<FieldA>>) : g.shape = "none"},
            auto_max : {AutoMax}, source : BOOLEAN, required : {NoRequired}] :
        /\ x.weights = StrayWeights => x.ifields = <<FieldA>>
        /\ x.source => x.ifields = <<FieldA>>}

Constructed == runner.life = "created"

\* runner = ExerciseRunner(exercise, debug, callback=callback)
Construct ==
    /\ runner.life = "none"
    /\ \E o \in Oracles(ex, NewEngine, TRUE, FALSE) :
          \E r \in {RunnerInit(ex, db, o)} :
              /\ pe' = r.pe
              /\ db' = r.db
              /\ runner' = [runner EXCEPT
                               !.life = IF r.err # "" THEN "failed" ELSE "created",
                               !.user_id = IF r.err # "" \/ id(ex) = NoId THEN NoId
                                           ELSE UserName]
              /\ last' = [NoRead EXCEPT !.op = "__init__", !.err = r.err]
    /\ UNCHANGED <<ex, pc, received, widgets, cbCalls, now>>

\* The call stack of the runner's methods.  A frame is a call of run(), of
\* finish() or of notify(): the step it is at, the widget of the step (i), the
\* observer that is handling the step's message (o; 0 while the step has not
\* notified; 1 at step 'callback' while the completion callback is executing),
\* the message, and for finish() what run() had done when it was called.
NoMsg == Msg("", "", 0, None)

Called(m, step) ==
    [m |-> m, step |-> step, i |-> 0, o |-> 0, msg |-> NoMsg,
     waited |-> runner.waited,
     awaiting |-> /\ pe.started_at # None
                  /\ \A k \in DOMAIN pc : pc[k].m # "run"]

Top == pc[Len(pc)]

\* The frame on top of the stack is about to execute this step.
Executing(m, step) == pc # <<>> /\ Top.m = m /\ Top.step = step /\ Top.o = 0

\* A method of the runner can be called: by the program that made the runner
\* while no method runs, by the observer that is handling a message, or by
\* the completion callback while it is executing.
Callable == Constructed /\ (IF pc = <<>> THEN TRUE ELSE Top.o > 0)

\* One more method of the runner can be called.
CanCall == Callable /\ runner.calls < MaxCalls

\* The runner's record of the calls, this call included.
Calls(r) == [r EXCEPT !.calls = @ + 1]

\* The frame at the statement after the notify it is in.
After(f) ==
    LET to(s, i) == [f EXCEPT !.step = s, !.i = i, !.o = 0, !.msg = NoMsg]
    IN  CASE f.step = "debug" -> to("parameters", 0)
          [] f.step = "parameters" -> to("hints", 0)
          [] f.step = "hints" -> to("preamble", 0)
          [] f.step = "preamble" ->
                 IF Len(ex.ifields) = 0 THEN to("problem", 0) ELSE to("create", 1)
          [] f.step = "create" -> to("info", f.i)
          [] f.step = "info" ->
                 IF f.i < Len(ex.ifields) THEN to("create", f.i + 1)
                 ELSE to("problem", 0)
          [] f.step = "problem" -> to("waiting", 0)
          [] f.step = "waiting" -> to("start", 0)
          [] f.step = "answers" -> to("max_total_score", 0)
          [] f.step = "max_total_score" -> to("total_score", 0)
          [] f.step = "total_score" -> to("feedback", 0)
          [] f.step = "feedback" -> to("persist", 0)

\* self.notify(msg) is entered by the method on top of the stack, the engine
\* being left as p and the widgets as w: the first observer is called; with no
\* observer the method goes on.
Notifies(msg, p, w) ==
    /\ pe' = p
    /\ widgets' = w
    /\ received' = IF received = <<>> THEN received ELSE notify(received, 1, msg)
    /\ pc' = [pc EXCEPT ![Len(pc)] = IF received = <<>> THEN After(@)
                                      ELSE [@ EXCEPT !.o = 1, !.msg = msg]]
    /\ last' = [NoRead EXCEPT !.op = Top.m]
    /\ UNCHANGED <<ex, db, cbCalls>>

\* The method on top of the stack raises err, the engine being left as p and
\* the widgets as w: the exception passes through every observer and method
\* below it.
Raises(err, p, w) ==
    /\ pe' = p
    /\ widgets' = w
    /\ pc' = <<>>
    /\ last' = [NoRead EXCEPT !.op = Top.m, !.err = err]
    /\ UNCHANGED <<ex, received, db, cbCalls>>

\* notify: the observer handling the message returns; the next observer is
\* called, one registered during the call included, or notify returns: to the
\* statement of run() or finish() after it, or to the program that called it.
observer_return ==
    /\ pc # <<>>
    /\ Top.o > 0
    /\ Top.step # "callback"
    /\ IF Top.o < Len(received)
       THEN /\ received' = notify(received, Top.o + 1, Top.msg)
            /\ pc' = [pc EXCEPT ![Len(pc)].o = @ + 1]
       ELSE /\ received' = received
            /\ pc' = IF Top.m = "notify" THEN SubSeq(pc, 1, Len(pc) - 1)
                     ELSE [pc EXCEPT ![Len(pc)] = After(@)]
    /\ last' = [NoRead EXCEPT !.op = Top.m]
    /\ UNCHANGED <<ex, pe, runner, widgets, db, cbCalls, now>>

\* runner.register_observer(observer)
register_observer ==
    /\ CanCall
    /\ Len(received) < MaxObservers
    /\ received' = Append(received, <<>>)
    /\ runner' = Calls([runner EXCEPT !.late = @ \/ runner.runs > 0])
    /\ UNCHANGED <<ex, pe, last, pc, widgets, db, cbCalls, now>>

\* runner.run() is called.
run ==
    /\ CanCall
    /\ runner.runs < MaxRuns
    /\ pc' = Append(pc, Called("run", "debug"))
    /\ runner' = Calls([runner EXCEPT !.runs = @ + 1])
    /\ last' = [NoRead EXCEPT !.op = "run"]
    /\ UNCHANGED <<ex, pe, received, widgets, db, cbCalls, now>>

run_debug ==
    /\ Executing("run", "debug")
    /\ Notifies(Msg("ExerciseAttribute", "debug", 0, None), pe, widgets)
    /\ UNCHANGED <<runner, now>>

run_parameters ==
    /\ Executing("run", "parameters")
    /\ \E o \in Oracles(ex, pe, FALSE, FALSE) :
          \E r \in {parameters(ex, pe, o)} :
              IF r.err # "" THEN Raises(r.err, r.pe, widgets)
              ELSE Notifies(Msg("ExerciseAttribute", "parameters", 0,
                                r.pe.parameters.v),
                            Invoked(r.pe, "notified"), widgets)
    /\ UNCHANGED <<runner, now>>

run_hints ==
    /\ Executing("run", "hints")
    /\ \E r \in {apply(ex, pe, "hints")} :
          IF r.err # "" THEN Raises(r.err, r.pe, widgets)
          ELSE Notifies(Msg("ExerciseAttribute", "hints", 0, None), r.pe, widgets)
    /\ UNCHANGED <<runner, now>>

run_preamble ==
    /\ Executing("run", "preamble")
    /\ \E r \in {apply(ex, pe, "preamble")} :
          IF r.err # "" THEN Raises(r.err, r.pe, widgets)
          ELSE Notifies(Msg("RenderTemplate", "preamble", 0, None), r.pe, widgets)
    /\ UNCHANGED <<runner, now>>

run_create_widget ==
    /\ Executing("run", "create")
    /\ Notifies(Msg("CreateWidget", "", Top.i, None), pe, widgets)
    /\ UNCHANGED <<runner, now>>

run_widget_info ==
    /\ Executing("run", "info")
    /\ Notifies(Msg("ChangeWidgetAttribute", "info", Top.i, None), pe, widgets)
    /\ UNCHANGED <<runner, now>>

run_problem ==
    /\ Executing("run", "problem")
    /\ Notifies(Msg("RenderTemplate", "problem", 0, None), pe, widgets)
    /\ UNCHANGED <<runner, now>>

\* `if self.debug: self.publish_solutions()`, then WaitingForSubmission.
run_waiting ==
    /\ Executing("run", "waiting")
    /\ \E o \in Oracles(ex, pe, FALSE, FALSE) :
          \E r \in {IF runner.debug
                    THEN publish_solutions(ex, Frame(pe, received, widgets, db, cbCalls), o)
                    ELSE Frame(pe, received, widgets, db, cbCalls)} :
              IF r.err # ""
              THEN Raises(r.err, r.pe, r.widgets) /\ UNCHANGED runner
              ELSE /\ Notifies(Msg("WaitingForSubmission", "", 0, None),
                               r.pe, r.widgets)
                   /\ runner' = [runner EXCEPT !.waited = TRUE]
    /\ UNCHANGED now

\* A reading of the clock: readings after MaxClock read MaxClock.
Tick == IF now < MaxClock THEN now + 1 ELSE now

\* `self.pexercise.started_at = datetime.utcnow()`; run() returns.
run_started_at ==
    /\ Executing("run", "start")
    /\ pe' = [pe EXCEPT !.started_at = now]
    /\ now' = Tick
    /\ pc' = SubSeq(pc, 1, Len(pc) - 1)
    /\ last' = [NoRead EXCEPT !.op = "run"]
    /\ UNCHANGED <<ex, runner, received, widgets, db, cbCalls>>

\* runner.observer(ChangeWidgetAttribute(origin, widget_id, 'value', v)): the
\* widget is looked up by the id of the message, the widgets' ids being 1 to
\* the number of input fields; for any other id the lookup raises KeyError,
\* which passes through every observer and method that is executing.
observer_value ==
    /\ CanCall
    /\ \E w \in 1 .. Len(ex.ifields) + 1 :
          IF w \in DOMAIN ex.ifields
          THEN \E v \in Values \cup {None} :
                  /\ pe.answers[ex.ifields[w]] # v
                  /\ pe' = [pe EXCEPT !.answers[ex.ifields[w]] = v]
                  /\ pc' = pc
                  /\ last' = [NoRead EXCEPT !.op = "value"]
          ELSE /\ pe' = pe
               /\ pc' = <<>>
               /\ last' = [NoRead EXCEPT !.op = "value", !.err = "KeyError"]
    /\ runner' = Calls(runner)
    /\ UNCHANGED <<ex, received, widgets, db, cbCalls, now>>

\* The messages the program passes to notify itself.
NotifyArgs == {Msg("WaitingForSubmission", "", 0, None)}

\* runner.notify(msg), called from outside run() and finish(): the first
\* observer is called; with no observer nothing happens.
notify_call ==
    /\ CanCall
    /\ \E msg \in NotifyArgs :
          IF received = <<>>
          THEN UNCHANGED <<pc, received>>
          ELSE /\ received' = notify(received, 1, msg)
               /\ pc' = Append(pc, [Called("notify", "notify") EXCEPT
                                       !.o = 1, !.msg = msg])
    /\ runner' = Calls([runner EXCEPT !.notified = TRUE])
    /\ last' = [NoRead EXCEPT !.op = "notify"]
    /\ UNCHANGED <<ex, pe, widgets, db, cbCalls, now>>

\* runner.observer(Submit()), or runner.finish(): finish() is called.
observer_submit ==
    /\ CanCall
    /\ runner.submits < MaxSubmits
    /\ pc' = Append(pc, Called("finish", "answers"))
    /\ runner' = Calls([runner EXCEPT !.submits = @ + 1])
    /\ last' = [NoRead EXCEPT !.op = "finish"]
    /\ UNCHANGED <<ex, pe, received, widgets, db, cbCalls, now>>

\* runner.publish_solutions(), called from outside the runner.
publish_solutions_call ==
    /\ CanCall
    /\ \E o \in Oracles(ex, pe, FALSE, FALSE) :
          \E r \in {publish_solutions(ex, Frame(pe, received, widgets, db, cbCalls), o)} :
              /\ pe' = r.pe
              /\ widgets' = r.widgets
              /\ pc' = IF r.err # "" THEN <<>> ELSE pc
              /\ last' = [NoRead EXCEPT !.op = "publish_solutions", !.err = r.err]
    /\ runner' = Calls([runner EXCEPT !.direct = TRUE])
    /\ UNCHANGED <<ex, received, db, cbCalls, now>>

\* finish(): submitted_at is set, the solutions are published unless the runner
\* is in debug mode, the answers are notified.
finish_answers ==
    /\ Executing("finish", "answers")
    /\ \E o \in Oracles(ex, pe, FALSE, FALSE) :
          \E r \in {IF runner.debug
                    THEN Frame([pe EXCEPT !.submitted_at = now],
                               received, widgets, db, cbCalls)
                    ELSE publish_solutions(
                             ex, Frame([pe EXCEPT !.submitted_at = now],
                                       received, widgets, db, cbCalls), o)} :
              IF r.err # "" THEN Raises(r.err, r.pe, r.widgets)
              ELSE \E m \in {model(ex, r.pe, o)} :
                      IF m.err # "" THEN Raises(m.err, m.pe, r.widgets)
                      ELSE Notifies(Msg("ExerciseAttribute", "answers", 0, None),
                                    m.pe, r.widgets)
    /\ now' = Tick
    /\ UNCHANGED runner

\* A message 'max_total_score' or 'total_score' carries the argument of
\* process_total_score.
finish_max_total_score ==
    /\ Executing("finish", "max_total_score")
    /\ \E o \in Oracles(ex, pe, TRUE, FALSE) :
          \E m \in {max_total_score(ex, pe, o)} :
              IF m.err # "" THEN Raises(m.err, m.pe, widgets)
              ELSE Notifies(Msg("ExerciseAttribute", "max_total_score", 0, m.val),
                            m.pe, widgets)
    /\ UNCHANGED <<runner, now>>

finish_total_score ==
    /\ Executing("finish", "total_score")
    /\ \E o \in Oracles(ex, pe, TRUE, TRUE) :
          \E m \in {total_score(ex, pe, o)} :
              IF m.err # "" THEN Raises(m.err, m.pe, widgets)
              ELSE Notifies(Msg("ExerciseAttribute", "total_score", 0, m.val),
                            m.pe, widgets)
    /\ UNCHANGED <<runner, now>>

\* `self.pexercise.correct`, the widgets' flags, then the feedback.
finish_feedback ==
    /\ Executing("finish", "feedback")
    /\ \E o \in Oracles(ex, pe, TRUE, TRUE) :
          \E c \in {correct(ex, pe, o)} :
              IF c.err # "" THEN Raises(c.err, c.pe, widgets)
              ELSE \E r \in {apply(ex, c.pe, "feedback")} :
                      IF r.err # "" THEN Raises(r.err, r.pe, widgets)
                      ELSE Notifies(Msg("RenderTemplate", "feedback", 0, None),
                                    r.pe, widgets)
    /\ UNCHANGED <<runner, now>>

\* The rest of finish(): without an id it returns; else the Result is added
\* and committed, and the callback, if there is one, is called; the total
\* score is read once for the Result and once for the callback.  finish() ends
\* by logging pexercise.summary, whose items are those of config.summary_items;
\* the log is no state of the model.
finish_persist ==
    /\ Executing("finish", "persist")
    /\ IF id(ex) = NoId
       THEN /\ pc' = SubSeq(pc, 1, Len(pc) - 1)
            /\ last' = [NoRead EXCEPT !.op = "finish"]
            /\ UNCHANGED <<pe, db, cbCalls>>
       ELSE \E o \in Oracles(ex, pe, TRUE, TRUE) :
               \E m \in {total_score(ex, pe, o)} :
                  IF m.err # ""
                  THEN /\ pe' = m.pe
                       /\ pc' = <<>>
                       /\ last' = [NoRead EXCEPT !.op = "finish", !.err = m.err]
                       /\ UNCHANGED <<db, cbCalls>>
                  ELSE /\ db' = [db EXCEPT
                                    !.results =
                                        Append(@, [exercise_id |-> id(ex),
                                                   user_id |-> runner.user_id,
                                                   started_at |-> m.pe.started_at,
                                                   submitted_at |-> m.pe.submitted_at,
                                                   score_given |-> m.val]),
                                    !.ops = @ \o <<"add Result", "commit">>]
                       /\ IF ~runner.callback
                          THEN /\ pe' = m.pe
                               /\ pc' = SubSeq(pc, 1, Len(pc) - 1)
                               /\ last' = [NoRead EXCEPT !.op = "finish"]
                               /\ UNCHANGED cbCalls
                          ELSE \E o4 \in Oracles(ex, m.pe, TRUE, TRUE) :
                                  \E c \in {total_score(ex, m.pe, o4)} :
                                     /\ pe' = c.pe
                                     /\ pc' = IF c.err # "" THEN <<>>
                                              ELSE [pc EXCEPT
                                                       ![Len(pc)].step = "callback",
                                                       ![Len(pc)].o = 1]
                                     /\ last' = [NoRead EXCEPT !.op = "finish",
                                                               !.err = c.err]
                                     /\ cbCalls' =
                                            IF c.err # "" THEN cbCalls
                                            ELSE Append(cbCalls,
                                                        [total_score |-> c.val,
                                                         max_total_score |->
                                                             c.pe.max_total])
    /\ UNCHANGED <<ex, runner, received, widgets, now>>

\* The completion callback returns; finish() logs the summary and returns.
callback_return ==
    /\ pc # <<>>
    /\ Top.step = "callback"
    /\ pc' = SubSeq(pc, 1, Len(pc) - 1)
    /\ last' = [NoRead EXCEPT !.op = "finish"]
    /\ UNCHANGED <<ex, pe, runner, received, widgets, db, cbCalls, now>>

\* Before construction: the exercise, the runner's arguments, and a database
\* that knows neither the user nor the exercise, or both if the exercise has
\* an id.
Init ==
    /\ ex \in RunnerExercises
    /\ pe = NewEngine
    /\ last = NoRead
    /\ pc = <<>>
    /\ runner \in {[debug |-> d, callback |-> c, user_id |-> NoId, life |-> "none",
                    runs |-> 0, submits |-> 0, calls |-> 0, waited |-> FALSE,
                    late |-> FALSE, direct |-> FALSE, notified |-> FALSE] :
                      d \in BOOLEAN, c \in BOOLEAN}
    /\ received = <<>>
    /\ widgets = [f \in FieldNames |-> FALSE]
    /\ db \in {[users |-> {}, exercises |-> {}, results |-> <<>>, ops |-> <<>>]}
              \cup (IF id(ex) = NoId THEN {}
                    ELSE {[users |-> {UserName},
                           exercises |-> {[id |-> id(ex),
                                           score_maximum |-> MaxWeight]},
                           results |-> <<>>, ops |-> <<>>]})
    /\ cbCalls = <<>>
    /\ now = 0

Next ==
    \/ Construct
    \/ register_observer
    \/ run
    \/ run_debug
    \/ run_parameters
    \/ run_hints
    \/ run_preamble
    \/ run_create_widget
    \/ run_widget_info
    \/ run_problem
    \/ run_waiting
    \/ run_started_at
    \/ observer_return
    \/ observer_value
    \/ observer_submit
    \/ publish_solutions_call
    \/ notify_call
    \/ finish_answers
    \/ finish_max_total_score
    \/ finish_total_score
    \/ finish_feedback
    \/ finish_persist
    \/ callback_return

Spec == Init /\ [][Next]_vars

-----------------------------------------------------------------------------
(* The solutions on their own: reads of the_solution, a_solution, solution. *)

\* What a solution hook for the input fields ifs returns: nothing, the bare
\* value 1, or a dict giving some of the input fields the value 1.
SolutionHooks(ifs) ==
    {NoSolution, [t |-> "bare", v |-> 1, d |-> NoFields]}
    \cup {[t |-> "dict", v |-> None, d |-> d] :
            d \in {g \in [FieldNames -> {1, None}] :
                      \A f \in FieldNames \ Range(ifs) : g[f] = None}}

\* Exercises with every pair of solution hooks, with and without the parameter
\* that FieldA names, whose value may differ from the hooks' value.
SolutionExercises ==
    UNION {[ifields : {ifs}, ofields : {{}},
            parOut : {{NoA}, {WithA}, {[n \in ParamNames |-> 2]}},
            the_solution : SolutionHooks(ifs), a_solution : SolutionHooks(ifs),
            weights : {[kind |-> "scalar", w |-> 1, m |-> <<>>]},
            scores : {g \in ScoresHooks(<<>>) : g.shape = "none"},
            auto_max : {AutoMax}, source : {TRUE},
            required : {NoRequired, RequiredBy("the_solution"),
                        RequiredBy("a_solution")}] : ifs \in IfieldSeqs}

\* pexercise.the_solution
ReadTheSolution ==
    /\ \E o \in Oracles(ex, pe, FALSE, FALSE) :
          \E r \in {the_solution(ex, pe, o)} :
              /\ pe' = r.pe
              /\ last' = [NoRead EXCEPT !.op = "the_solution", !.err = r.err,
                                        !.solution = r.pe.the_solution.v]
    /\ Idle

\* pexercise.a_solution
ReadASolution ==
    /\ \E o \in Oracles(ex, pe, FALSE, FALSE) :
          \E r \in {a_solution(ex, pe, o)} :
              /\ pe' = r.pe
              /\ last' = [NoRead EXCEPT !.op = "a_solution", !.err = r.err,
                                        !.solution = r.pe.a_solution.v]
    /\ Idle

\* pexercise.solution
ReadSolution ==
    /\ \E o \in Oracles(ex, pe, FALSE, FALSE) :
          \E r \in {solution(ex, pe, o)} :
              /\ pe' = r.pe
              /\ last' = [NoRead EXCEPT !.op = "solution", !.err = r.err,
                                        !.solution = r.val]
    /\ Idle

InitSolution ==
    /\ ex \in SolutionExercises
    /\ pe = NewEngine
    /\ last = NoRead
    /\ NoRunner

NextSolution == ReadTheSolution \/ ReadASolution \/ ReadSolution

SpecSolution == InitSolution /\ [][NextSolution]_vars

-----------------------------------------------------------------------------
(* Construction of an Exercise Definition: Exercise.__init__ as wrapped by
   __init_subclass__.  Numbers are in units of 1/Grid, so that Grid is 1.0. *)

\* A keyword argument: not given (None), or the value v, a number or not.
NoArg == [none |-> TRUE, num |-> TRUE, v |-> 0]

Arg(v) == [none |-> FALSE, num |-> TRUE, v |-> v]

NotANumber == [none |-> FALSE, num |-> FALSE, v |-> 0]

\* isinstance(x, float_types) and 0.0 <= float(x) <= 1.0
InUnitInterval(x) == x.num /\ 0 <= x.v /\ x.v <= Grid

\* An exercise whose construction raised.
Unconstructed ==
    [difficulty |-> NoArg, min_difficulty |-> NoArg, max_difficulty |-> NoArg,
     weights |-> [kind |-> "none", w |-> None, m |-> <<>>]]

\* The keywords that new_init passes on to old_init: the three it handles are
\* removed, so that a wrapped old_init finds the defaults.
Passed(kw) ==
    [min_difficulty |-> NoArg, max_difficulty |-> NoArg,
     weights |-> [kind |-> "scalar", w |-> 1, m |-> <<>>], other |-> kw.other]

\* new_init of a class with 'classes' Exercise subclasses in its MRO: the
\* difficulty bounds are checked against [0, 1], the weights for their types,
\* and the attributes are set; kw.weights.m lists a weight dict's items
\* [k, str, v, num].  Then old_init runs with the remaining keywords: for a
\* subclass of a subclass it is the parent's new_init, which sets the
\* attributes again; for a direct subclass it is object.__init__, which takes
\* no keyword.
RECURSIVE new_init(_, _)
new_init(kw, classes) ==
    LET w == kw.weights
    IN  IF ~kw.min_difficulty.none /\ ~InUnitInterval(kw.min_difficulty)
        THEN [err |-> "ValueError", self |-> Unconstructed]
        ELSE IF ~kw.max_difficulty.none /\ ~InUnitInterval(kw.max_difficulty)
        THEN [err |-> "ValueError", self |-> Unconstructed]
        ELSE IF w.kind \notin {"scalar", "dict"}
        THEN [err |-> "ValueError", self |-> Unconstructed]
        ELSE IF w.kind = "dict" /\ \E i \in DOMAIN w.m : ~w.m[i].str \/ ~w.m[i].num
        THEN [err |-> "ValueError", self |-> Unconstructed]
        ELSE IF classes > 1 THEN new_init(Passed(kw), classes - 1)
        ELSE IF kw.other THEN [err |-> "TypeError", self |-> Unconstructed]
        ELSE [err |-> "",
              self |-> [difficulty |-> NoArg,
                        min_difficulty |-> kw.min_difficulty,
                        max_difficulty |-> kw.max_difficulty,
                        weights |-> IF w.kind = "scalar"
                                    THEN [kind |-> "scalar", w |-> w.w, m |-> <<>>]
                                    ELSE [kind |-> "dict", w |-> None,
                                          m |-> [i \in DOMAIN w.m |->
                                                    [k |-> w.m[i].k, v |-> w.m[i].v]]]]]

\* The difficulty bounds given: none, a number from below 0.0 to above 1.0, or
\* something that is no number.
DifficultyArgs == {NoArg, NotANumber} \cup {Arg(v) : v \in -1 .. Grid + 1}

\* The weights given: a number (1 when not given), a dict of at most one item,
\* or something else; a number may be negative.
WeightArgs ==
    {[kind |-> "scalar", w |-> v, m |-> <<>>] : v \in -1 .. MaxWeight}
    \cup {[kind |-> "dict", w |-> None, m |-> <<>>],
          [kind |-> "other", w |-> None, m |-> <<>>]}
    \cup {[kind |-> "dict", w |-> None,
           m |-> <<[k |-> FieldA, str |-> st, v |-> v, num |-> nm]>>] :
              st \in BOOLEAN, nm \in BOOLEAN, v \in -1 .. MaxWeight}

\* exercise = SomeExercise(**kwargs)
Exercise_init ==
    /\ last.op = ""
    /\ \E r \in {new_init(ex.kwargs, ex.classes)} :
          /\ ex' = [ex EXCEPT !.self = r.self]
          /\ last' = [NoRead EXCEPT !.op = "__init__", !.err = r.err]
    /\ UNCHANGED <<pe, pc, runner, received, widgets, db, cbCalls, now>>

InitExercise ==
    /\ ex \in [kwargs : [min_difficulty : DifficultyArgs,
                          max_difficulty : DifficultyArgs, weights : WeightArgs,
                          other : BOOLEAN],
                classes : 1 .. MaxClasses,
                self : {Unconstructed}]
    /\ pe = NewEngine
    /\ last = NoRead
    /\ NoRunner

NextExercise == Exercise_init

SpecExercise == InitExercise /\ [][NextExercise]_vars

-----------------------------------------------------------------------------
(* Two attempts of one Exercise instance: Exercise.run called twice, the   *)
(* calls interleaved at the statements that touch the instance.            *)

Attempts == {1, 2}

\* The difficulty given to run(): none, a number of [0, 1], or one beyond.
RunArgs == {NoArg} \cup {Arg(v) : v \in 0 .. Grid + 1}

\* The Exercise instance after construction: new_init set difficulty to None.
Constructed_Exercise ==
    [difficulty |-> NoArg, min_difficulty |-> NoArg, max_difficulty |-> NoArg]

\* Exercise.run up to 'self.difficulty = difficulty': the argument, held in
\* the frame of the call, is validated and written to the instance.
Exercise_run(t) ==
    /\ pc[t] = "called"
    /\ IF runner[t].difficulty.none \/ InUnitInterval(runner[t].difficulty)
       THEN /\ ex' = [ex EXCEPT !.difficulty = runner[t].difficulty]
            /\ pc' = [pc EXCEPT ![t] = "assigned"]
       ELSE /\ pc' = [pc EXCEPT ![t] = "ValueError"]
            /\ UNCHANGED ex
    /\ UNCHANGED <<pe, last, runner, received, widgets, db, cbCalls, now>>

\* ExerciseRunner(self, ...): the attempt gets its own ParametrizedExercise,
\* and the constructor reads its widgets, hence its model and its parameters:
\* the hook receives the difficulty found on the instance, or one drawn from
\* [min, max] when it is None, and the sample is cached.
ExerciseRunner_init(t) ==
    /\ pc[t] = "assigned"
    /\ pc' = [pc EXCEPT ![t] = "constructed"]
    /\ \E drawn \in 0 .. Grid :
          pe' = [pe EXCEPT ![t] =
                    [cached |-> TRUE,
                     difficulty |-> IF ex.difficulty.none THEN drawn
                                    ELSE ex.difficulty.v]]
    /\ UNCHANGED <<ex, last, runner, received, widgets, db, cbCalls, now>>

\* runner.run() notifies pexercise.parameters: the cached sample.
ExerciseRunner_run(t) ==
    /\ pc[t] = "constructed"
    /\ pe[t].cached
    /\ pc' = [pc EXCEPT ![t] = "parametrized"]
    /\ UNCHANGED <<ex, pe, last, runner, received, widgets, db, cbCalls, now>>

InitAttempts ==
    /\ ex = Constructed_Exercise
    /\ runner \in [Attempts -> [difficulty : RunArgs]]
    /\ pc = [t \in Attempts |-> "called"]
    /\ pe = [t \in Attempts |-> [cached |-> FALSE, difficulty |-> None]]
    /\ last = NoRead
    /\ received = <<>>
    /\ widgets = [f \in FieldNames |-> FALSE]
    /\ db = [users |-> {}, exercises |-> {}, results |-> <<>>, ops |-> <<>>]
    /\ cbCalls = <<>>
    /\ now = 0

NextAttempts ==
    \E t \in Attempts :
        \/ Exercise_run(t)
        \/ ExerciseRunner_init(t)
        \/ ExerciseRunner_run(t)

SpecAttempts == InitAttempts /\ [][NextAttempts]_vars

-----------------------------------------------------------------------------
(* The Weighted Collection (Quiz): which children a node exposes, and in   *)
(* which order.  Children are named by their index, from 0.                *)

\* The indices of the children of a node with n children.
Children(n) == 0 .. n - 1

\* The children of positive weight: the ones a draw can yield.
Drawable(node) == {i \in Children(node.n) : node.weights[i] > 0}

\* The nodes: n children, a weight per child index (an unlisted index has
\* weight 1), a navigation mode, a select count (n when not given) and the
\* shuffle flag.  A node that selects has enough children of positive weight
\* for 'select' draws without replacement.
QuizNodes ==
    {node \in UNION {[n : {n}, weights : [Children(n) -> 0 .. MaxWeight],
                      navigation : {"free", "sequential"},
                      select : 0 .. n, shuffle : BOOLEAN] : n \in 1 .. MaxChildren} :
        node.select < node.n => Cardinality(Drawable(node)) >= node.select}

\* The children of the set 'chosen' in child index order.
RECURSIVE InIndexOrder(_)
InIndexOrder(chosen) ==
    IF chosen = {} THEN <<>>
    ELSE LET least == CHOOSE i \in chosen : \A j \in chosen : i <= j
         IN  <<least>> \o InIndexOrder(chosen \ {least})

\* The orders in which the indices 'chosen' can be arranged.
Arrangements(chosen) ==
    {q \in [1 .. Cardinality(chosen) -> chosen] :
        \A i, j \in DOMAIN q : i # j => q[i] # q[j]}

\* The drawn children exposed in the order of the draws.
ExposedAsDrawn(node, drawn, arranged) == drawn

\* The order in which a node exposes the children 'drawn': the arrangement
\* 'arranged' when the node shuffles and is navigated freely, else child
\* index order.
Exposed(node, drawn, arranged) ==
    IF node.shuffle /\ node.navigation = "free" THEN arranged
    ELSE InIndexOrder(Range(drawn))

\* One draw without replacement: a child not drawn yet, of positive weight
\* (its probability is its weight over the sum of the remaining weights).
Quiz_draw ==
    /\ pc = "sampling"
    /\ ex.select < ex.n
    /\ Len(pe.drawn) < ex.select
    /\ \E i \in Drawable(ex) \ Range(pe.drawn) :
          pe' = [pe EXCEPT !.drawn = Append(@, i)]
    /\ UNCHANGED <<ex, last, pc, runner, received, widgets, db, cbCalls, now>>

\* The node exposes its children: the drawn ones when it selects, else all.
Quiz_expose ==
    /\ pc = "sampling"
    /\ ex.select < ex.n => Len(pe.drawn) = ex.select
    /\ \E drawn \in {IF ex.select < ex.n THEN pe.drawn
                      ELSE InIndexOrder(Children(ex.n))} :
          \E arranged \in Arrangements(Range(drawn)) :
              pe' = [pe EXCEPT !.exposed = Exposed(ex, drawn, arranged)]
    /\ pc' = "exposed"
    /\ UNCHANGED <<ex, last, runner, received, widgets, db, cbCalls, now>>

InitQuiz ==
    /\ ex \in QuizNodes
    /\ pe = [drawn |-> <<>>, exposed |-> <<>>]
    /\ pc = "sampling"
    /\ last = NoRead
    /\ runner = [debug |-> FALSE, callback |-> FALSE, user_id |-> NoId, submits |-> 0]
    /\ received = <<>>
    /\ widgets = [f \in FieldNames |-> FALSE]
    /\ db = [users |-> {}, exercises |-> {}, results |-> <<>>, ops |-> <<>>]
    /\ cbCalls = <<>>
    /\ now = 0

NextQuiz == Quiz_draw \/ Quiz_expose

SpecQuiz == InitQuiz /\ [][NextQuiz]_vars

-----------------------------------------------------------------------------
(* The claims about the scoring subsystem, checked under SpecScore. *)

Fields == Range(ex.ifields)

\* score_weights[f] as the engine has normalized it.
WeightOf(f) ==
    LET sw == pe.score_weights.v
    IN  sw[CHOOSE i \in DOMAIN sw : sw[i].k = f].v

\* The last read was a read of 'scores' that returned.
ScoresRead == last.op = "scores" /\ last.err = ""

\* The field has neither a non-empty answer nor a default in the hook's signature.
Unanswered(f) == pe.answers[f] = None /\ f \notin ex.scores.defaults

\* C6: two reads of 'scores' / 'total_score' on one engine with unchanged
\* answers return the same Score Mapping and leave the same total score, also
\* for a stochastic scores hook (the score is written once).
C6_ScoresIdempotent ==
    [][(ScoresRead /\ ScoresRead' /\ pe'.answers = pe.answers)
          => (last'.scores = last.scores /\ pe'.total = pe.total)]_vars

\* C7: one input field, a scores hook returning a number, no non-empty answer:
\* the total score is 0.0.
C7_SingleFieldAllOrNothing ==
    (/\ Len(ex.ifields) = 1
     /\ ex.scores.shape = "num"
     /\ \A f \in Fields : pe.answers[f] = None
     /\ ScoresRead)
        => pe.total = 0

\* C8: joint scoring (a number or a pair) of more than one field: with a field
\* lacking a non-empty answer the total is 0.0, every per-field score is None and
\* the hook is not invoked with the answers; with every field answered every
\* per-field score is None and the total is the hook's score times the first
\* normalized weight.
C8_JointScoring ==
    (/\ Len(ex.ifields) > 1
     /\ ex.scores.shape \in {"num", "pair"}
     /\ ScoresRead)
        => /\ \A f \in Fields : last.scores[f] = None
           /\ IF \E f \in Fields : pe.answers[f] = None
              THEN pe.total = 0 /\ last.calls = <<"dummy">>
              ELSE /\ last.calls = <<"dummy", "answers">>
                   /\ pe.total = last.out.v * pe.score_weights.v[1].v

\* C8's case: two fields, both answered, a joint score that is not 0 under a
\* first weight that differs from the other field's.
C8_Witness ==
    /\ Len(ex.ifields) > 1
    /\ ex.scores.shape = "pair"
    /\ ScoresRead
    /\ \A f \in Fields : pe.answers[f] # None
    /\ pe.total = MaxWeight
    /\ pe.score_weights.v[2].v # pe.score_weights.v[1].v

\* C9: in per-field scoring every input field of the returned dict scores the
\* hook's value times its weight, every other input field its automatic score
\* times its weight, and the total score is the sum of these scores over
\* exactly the input fields.
C9_PerFieldScoring ==
    (ex.scores.shape = "dict" /\ ScoresRead)
        => /\ \A f \in Fields :
                 last.scores[f] =
                     (IF ex.scores.entry[f] # "absent" THEN last.out.d[f]
                      ELSE auto_score(ex, pe, f)) * WeightOf(f)
           /\ pe.total = SumOver(Fields, last.scores)

\* C9's failing case: the returned dict has a key that is no input field.  The
\* one input field is answered and scores the hook's value times its weight,
\* as claimed; the Score Mapping also holds the other key, and the total score
\* is the input field's score plus the number the hook gave that key.
C9_StrayKeyInTotal ==
    /\ ex.scores.shape = "dict"
    /\ ScoresRead
    /\ ex.ifields = <<FieldA>>
    /\ StrayKeys(ex) = {FieldB}
    /\ ex.scores.entry[FieldA] # "absent" /\ pe.answers[FieldA] # None
    /\ last.scores[FieldA] = last.out.d[FieldA] * WeightOf(FieldA)
    /\ last.scores[FieldB] = 1
    /\ pe.total = last.scores[FieldA] + 1

\* The answer of f attains the field's automatic maximum.
AttainsAutoMax(f) == auto_score(ex, pe, f) = auto_max_score(ex, f)

\* C10: automatic scoring (the scores hook returns nothing): max_scores[f] is
\* auto_max_score(f) * score_weights[f], scores[f] is auto_score(f) *
\* score_weights[f], the totals are their sums, and a field whose answer attains
\* the automatic maximum has scores[f] = max_scores[f] and correct[f] = True.
C10_AutomaticScoring ==
    ex.scores.shape = "none"
        => /\ pe.max_scores.cached
                => /\ \A f \in Fields :
                         pe.max_scores.v[f] = auto_max_score(ex, f) * WeightOf(f)
                   /\ pe.max_total = SumOver(Fields, pe.max_scores.v)
           /\ ScoresRead
                => /\ \A f \in Fields :
                         last.scores[f] = auto_score(ex, pe, f) * WeightOf(f)
                   /\ pe.total = SumOver(Fields, last.scores)
                   /\ pe.max_scores.cached
                         => \A f \in Fields :
                               AttainsAutoMax(f) => last.scores[f] = pe.max_scores.v[f]
           /\ (last.op = "correct" /\ last.err = "")
                => \A f \in Fields : AttainsAutoMax(f) => last.correct[f] = "True"

\* C10's case: two fields of different weights under automatic scoring, one
\* answered with its solution and found correct, the other found not correct.
C10_Witness ==
    /\ ex.scores.shape = "none"
    /\ last.op = "correct" /\ last.err = ""
    /\ \E f, g \in Fields :
          /\ AttainsAutoMax(f) /\ last.correct[f] = "True"
          /\ pe.max_scores.v[f] = auto_max_score(ex, f) * MaxWeight
          /\ last.correct[g] = "False"
          /\ WeightOf(g) # WeightOf(f)

-----------------------------------------------------------------------------
(* The claims about memoization, checked under SpecEngine. *)

\* C5 as claimed: over any sequence of property reads of one engine the
\* parameters hook and the problem hook are each invoked at most once.
C5_Original == pe.nParameters <= 1 /\ pe.nProblem <= 1

\* The cached Parameter Sample lacks an output field of the Problem Model.
IllPosed == \E ofield \in ex.ofields : pe.parameters.v[ofield] = None

\* C5 amended: the parameters hook is invoked at most once; the problem hook is
\* invoked at most once unless 'model' fails its output field validation (a
\* failed read caches no model, the next read invokes the hook again); every
\* hook is passed, and every read of 'parameters' returns, the one Parameter
\* Sample, also for a non-deterministic parameters hook.
C5_HooksOnceWhileModelValid ==
    /\ pe.nParameters <= 1
    /\ pe.nProblem > 1 => (~pe.model /\ IllPosed)
    /\ \A h \in pe.hookPars : h[2] = pe.parameters.v
    /\ last.op = "parameters" => last.pars = pe.parameters.v

\* C5's case: a stochastic parameters hook, a model computed by one invocation
\* of each hook, and the scores hook invoked with the sample after the answers
\* were set.
C5_Witness ==
    /\ Cardinality(ex.parOut) = 2
    /\ pe.nParameters = 1 /\ pe.nProblem = 1 /\ pe.model
    /\ pe.answers[FieldA] # None
    /\ ScoresRead
    /\ {h[1] : h \in pe.hookPars} = {"problem", "the_solution", "a_solution", "scores"}

-----------------------------------------------------------------------------
(* The claims about the attempt runner, checked under Spec. *)

\* A run() has emitted WaitingForSubmission: its notify was entered.
WaitingEmitted == runner.waited

\* No method of the runner is running and a run() has returned.
Awaiting == pc = <<>> /\ pe.started_at # None

\* The attributes and the template notified by finish().
FinishNames == {"answers", "max_total_score", "total_score", "feedback"}

IsFinishMsg(m) == m.name \in FinishNames

IsRunMsg(m) == m.name \notin FinishNames

\* Class, name and widget of a message.
Tag(m) == <<m.kind, m.name, m.widget>>

\* The messages of a complete run(), by class, name and widget.
RunSequence ==
    << <<"ExerciseAttribute", "debug", 0>>, <<"ExerciseAttribute", "parameters", 0>>,
       <<"ExerciseAttribute", "hints", 0>>, <<"RenderTemplate", "preamble", 0>> >>
    \o [k \in 1 .. 2 * Len(ex.ifields) |->
           IF k % 2 = 1 THEN <<"CreateWidget", "", (k + 1) \div 2>>
           ELSE <<"ChangeWidgetAttribute", "info", k \div 2>>]
    \o << <<"RenderTemplate", "problem", 0>>, <<"WaitingForSubmission", "", 0>> >>

\* What observer i received from run().
RunLog(i) ==
    LET log == SelectSeq(received[i], IsRunMsg)
    IN  [k \in DOMAIN log |-> Tag(log[k])]

\* C1: while run() has not emitted WaitingForSubmission (the attempt is Created
\* or Rendering), a Submit reaching the internal observer finishes nothing: no
\* 'answers', 'total_score', 'max_total_score' or 'feedback' message was
\* notified, no Result is persisted, the callback was not invoked.
C1_NoFinishingBeforeWaiting ==
    (Constructed /\ ~WaitingEmitted)
        => /\ \A i \in DOMAIN received :
                 SelectSeq(received[i], IsFinishMsg) = <<>>
           /\ db.results = <<>>
           /\ cbCalls = <<>>

\* run() was called at most once, every observer was registered before, and
\* the program has notified no message itself.
OneRun == runner.runs <= 1 /\ ~runner.late /\ ~runner.notified

\* C2: of one run(), what an observer registered before it has received is an
\* initial part of debug, parameters, hints, preamble, CreateWidget and
\* ChangeWidgetAttribute per widget, problem, WaitingForSubmission, and all of
\* it once run() has returned; nothing else is received while no Submit was
\* handled; the observers receive each message in the order they registered,
\* so an observer is at most one message behind the ones before it; no
\* ChangeWidgetAttribute of a widget precedes its CreateWidget.
C2_RunMessageOrder ==
    OneRun =>
        \A i \in DOMAIN received :
            LET log == RunLog(i)
            IN  /\ Len(log) <= Len(RunSequence)
                /\ log = SubSeq(RunSequence, 1, Len(log))
                /\ pe.started_at # None => log = RunSequence
                /\ runner.submits = 0 => Len(received[i]) = Len(log)
                /\ \A j \in 1 .. i - 1 :
                      /\ Len(log) <= Len(RunLog(j))
                      /\ Len(RunLog(j)) <= Len(log) + 1
                /\ (pc = <<>> /\ last.err = "") => log = RunLog(1)
                /\ \A k \in DOMAIN log :
                      log[k][1] = "ChangeWidgetAttribute"
                          => \E j \in 1 .. k - 1 :
                                log[j][1] = "CreateWidget" /\ log[j][3] = log[k][3]

\* C2's case: run() is through for two observers and two widgets, no Submit.
C2_Witness ==
    /\ Awaiting
    /\ OneRun /\ runner.runs = 1
    /\ runner.submits = 0
    /\ Len(received) = MaxObservers
    /\ Len(ex.ifields) = 2
    /\ Len(received[MaxObservers]) = Len(RunSequence)

\* The finish() on top of the stack returns in this step.
FinishReturns ==
    /\ pc # <<>>
    /\ Top.m = "finish"
    /\ Len(pc') = Len(pc) - 1
    /\ last'.err = ""

\* C3: with a completion callback, every finish() of a Submit handled in
\* AwaitingSubmission returns from its call of the callback, 'feedback' having
\* been notified to every observer, the exercise's id being None or not; and
\* the callback is called with (total_score, max_total_score).
C3_CallbackOnEverySubmission ==
    [][/\ (FinishReturns /\ Top.awaiting /\ runner.callback)
            => /\ Top.step = "callback"
               /\ \A i \in DOMAIN received :
                     \E k \in DOMAIN received[i] : received[i][k].name = "feedback"
       /\ cbCalls' # cbCalls
            => /\ Len(cbCalls') = Len(cbCalls) + 1
               /\ cbCalls'[Len(cbCalls')] =
                      [total_score |-> pe'.total,
                       max_total_score |-> pe'.max_total]]_vars

\* C4: for an exercise without source text (its id is None) no persistence
\* operation is ever performed: the constructor ensures neither the user nor
\* the exercise and sets no user id, finish() appends no Result.
C4_NoPersistenceWithoutId ==
    ~ex.source
        => /\ db.ops = <<>>
           /\ db.results = <<>>
           /\ Constructed => runner.user_id = NoId

\* C4's case: an attempt without source text was run and finished, its
\* feedback notified, in a database that knows neither user nor exercise.
C4_Witness ==
    /\ ~ex.source
    /\ Awaiting
    /\ last.op = "finish" /\ last.err = ""
    /\ Len(received) > 0
    /\ SelectSeq(received[1], IsFinishMsg) # <<>>
    /\ db.users = {} /\ db.exercises = {}

-----------------------------------------------------------------------------
(* The claims about the verdicts, the weights and the solutions. *)

\* The last read was a read of 'correct' that returned.
CorrectRead == last.op = "correct" /\ last.err = ""

\* C11: every read of 'correct', also one after the answers have changed,
\* returns for each field True if the score this read computed equals the
\* field's maximal score, False if both are there and differ, None if one of
\* them is None.
C11_CorrectOnEveryRead ==
    CorrectRead
        => \A f \in Fields :
              last.correct[f] =
                  IF last.scores[f] = None \/ pe.max_scores.v[f] = None THEN "None"
                  ELSE IF last.scores[f] = pe.max_scores.v[f] THEN "True"
                  ELSE "False"

\* C12: a read of 'score_weights' leaves the exercise's own weights as they
\* were and yields exactly one weight per input field (the single key None for
\* a scalar weight without input fields): the scalar for every field, or the
\* listed value of a listed field and 1.0 for an unlisted one.
C12_WeightNormalization ==
    [][(last'.op = "score_weights" /\ last'.err = "")
          => LET sw == pe'.score_weights.v
                 w == ex.weights
             IN  /\ ex' = ex
                 /\ {sw[i].k : i \in DOMAIN sw} =
                        IF Fields = {} /\ w.kind = "scalar" THEN {NoneKey} ELSE Fields
                 /\ \A i, j \in DOMAIN sw : sw[i].k = sw[j].k => i = j
                 /\ \A i \in DOMAIN sw :
                        sw[i].v =
                            IF w.kind = "scalar" THEN w.w
                            ELSE IF \E j \in DOMAIN w.m : w.m[j].k = sw[i].k
                            THEN w.m[CHOOSE j \in DOMAIN w.m : w.m[j].k = sw[i].k].v
                            ELSE 1]_vars

\* C12's case: of two input fields the weight mapping lists the first.
C12_Witness ==
    /\ last.op = "score_weights" /\ last.err = ""
    /\ ex.ifields = <<FieldA, FieldB>>
    /\ ex.weights.kind = "dict" /\ Len(ex.weights.m) = 1
    /\ pe.score_weights.v = <<[k |-> FieldA, v |-> MaxWeight], [k |-> FieldB, v |-> 1]>>

\* A key of the exercise's weight mapping is no input field.
StrayWeightKey ==
    /\ ex.weights.kind = "dict"
    /\ \E i \in DOMAIN ex.weights.m : ex.weights.m[i].k \notin Fields

\* C13: an exercise whose weight mapping has a key that is no input field is
\* rejected at construction: no observer is notified a message of run() (the
\* program notifying none itself) and no submission is awaited.
C13_StrayWeightKeyRejected ==
    (StrayWeightKey /\ ~runner.notified)
        => /\ \A i \in DOMAIN received : received[i] = <<>>
           /\ ~WaitingEmitted

\* Every weight value of the constructed exercise is non-negative.
WeightsNonNegative ==
    LET w == ex.self.weights
    IN  /\ w.kind = "scalar" => w.w >= 0
        /\ \A i \in DOMAIN w.m : w.m[i].v >= 0

\* C14: a successfully constructed Exercise Definition has its difficulty
\* bounds, when given, in [0, 1] and no negative weight value; construction
\* with an out-of-range bound or a negative weight fails.
C14_DefinitionInvariant ==
    (last.op = "__init__" /\ last.err = "")
        => /\ \A d \in {ex.self.min_difficulty, ex.self.max_difficulty} :
                 d.none \/ (0 <= d.v /\ d.v <= Grid)
           /\ WeightsNonNegative

\* The normalized weights of the input fields are not all equal.
UnequalWeights ==
    /\ pe.score_weights.cached
    /\ \E i, j \in DOMAIN pe.score_weights.v :
          pe.score_weights.v[i].v # pe.score_weights.v[j].v

\* C15: under a joint result of the scores hook (a number or a pair) and
\* normalized weights that are not all equal, a read of the scores (the total
\* score) or of 'correct' (the maximal total score) raises IllPosedError.
C15_JointNeedsUniformWeight ==
    (/\ ex.scores.shape \in {"num", "pair"}
     /\ UnequalWeights
     /\ last.op \in {"scores", "correct"})
        => last.err = "IllPosedError"

\* The explicit solution the the_solution hook gives the input field f, None
\* when it gives none.
ExplicitFor(f) ==
    IF ex.the_solution.t = "dict" THEN ex.the_solution.d[f]
    ELSE IF ex.the_solution.t = "bare" /\ ex.ifields = <<f>> THEN ex.the_solution.v
    ELSE None

\* The input fields named after an existing parameter plus the suffix '_'.
NamedAfterParameter ==
    {f \in Range(ex.ifields) :
        /\ EndsWithUnderscore(f)
        /\ StripLast(f) \in ParamNames
        /\ pe.parameters.v[StripLast(f)] # None}

\* C16: after the reference solution has been computed, every input field
\* whose name is a parameter's name plus '_' has that parameter's value as its
\* solution when the the_solution hook gives the field no explicit solution,
\* and the explicit value when the hook gives one.
C16_ImplicitSolution ==
    (last.op \in {"the_solution", "solution"} /\ last.err = "")
        => \A f \in NamedAfterParameter :
              /\ last.solution[f] = IF ExplicitFor(f) # None THEN ExplicitFor(f)
                                    ELSE pe.parameters.v[StripLast(f)]
              /\ IfieldSolution(pe, f) = last.solution[f]

\* An implicit solution was assigned: no explicit solution for a_, the
\* parameter a is 2, and the reference solution of a_ read back is 2.
C16_Witness ==
    /\ last.op = "the_solution"
    /\ last.err = ""
    /\ FieldA \in NamedAfterParameter
    /\ ExplicitFor(FieldA) = None
    /\ pe.parameters.v[ParamA] = 2
    /\ last.solution[FieldA] = 2

\* The hook returning {field_name: v} for the only input field, in place of
\* the hook h returning the bare value v.
AsDict(h) ==
    [t |-> "dict", v |-> None,
     d |-> [f \in FieldNames |-> IF f = ex.ifields[1] THEN h.v ELSE None]]

\* The same attempt started afresh on the exercise e: same Parameter Sample.
SameSample == [sample |-> pe.parameters.v, mx |-> NoReturn, out |-> NoReturn]

\* C17: with exactly one input field, a read of the_solution or a_solution
\* whose hook returns a bare value v ends as the read does whose hook returns
\* {field_name: v}, with the same solution mapping; with no or several input
\* fields the bare return fails with IllPosedError.
C17_BareSolution ==
    /\ (last.op = "the_solution" /\ ex.the_solution.t = "bare")
          => IF Len(ex.ifields) = 1
             THEN \E r \in {the_solution([ex EXCEPT !.the_solution = AsDict(@)],
                                         NewEngine, SameSample)} :
                     /\ last.err = r.err
                     /\ last.solution = r.pe.the_solution.v
             ELSE last.err = "IllPosedError"
    /\ (last.op = "a_solution" /\ ex.a_solution.t = "bare")
          => IF Len(ex.ifields) = 1
             THEN \E r \in {a_solution([ex EXCEPT !.a_solution = AsDict(@)],
                                       NewEngine, SameSample)} :
                     /\ last.err = r.err
                     /\ last.solution = r.pe.a_solution.v
             ELSE last.err = "IllPosedError"

\* A bare reference solution was read with one input field and is that
\* field's solution.
C17_Witness ==
    /\ last.op = "the_solution"
    /\ ex.the_solution.t = "bare"
    /\ Len(ex.ifields) = 1
    /\ last.err = ""
    /\ last.solution[ex.ifields[1]] = ex.the_solution.v

\* Every output field name of the exercise is a key of the sample 'pars'.
Resolvable(pars) == \A ofield \in ex.ofields : pars[ofield] # None

\* C18: a read of 'model' succeeds only if every output field name is a key
\* of the Parameter Sample; otherwise it fails with IllPosedError and no model
\* is cached.  A read that succeeds caches the model, one that fails caches
\* none, and neither changes a Parameter Sample computed before.
C18_ModelValidation ==
    [][last'.op = "model" =>
          /\ pe'.parameters.cached
          /\ (pe.parameters.cached => pe'.parameters = pe.parameters)
          /\ (last'.err = "" => Resolvable(pe'.parameters.v))
          /\ (~Resolvable(pe'.parameters.v) => last'.err = "IllPosedError")
          /\ (pe'.model <=> last'.err = "")]_vars

\* A read of 'model' failed on an output field without a parameter.
C18_Witness ==
    /\ last.op = "model"
    /\ last.err = "IllPosedError"
    /\ pe.parameters.cached
    /\ ~Resolvable(pe.parameters.v)
    /\ ~pe.model

\* C19: under every interleaving of two run() calls on one Exercise
\* instance, the 'parameters' hook of each attempt receives the difficulty
\* given to the attempt's own run() call.
C19_AttemptsIndependent ==
    \A t \in Attempts :
        (pe[t].cached /\ ~runner[t].difficulty.none)
            => pe[t].difficulty = runner[t].difficulty.v

\* The sequence q lists child indices in child index order.
ChildIndexOrder(q) == \A i, j \in DOMAIN q : i < j => q[i] < q[j]

\* C20: a node with n children and select = k < n exposes exactly k pairwise
\* distinct children of the node; the exposed order differs from child index
\* order only if shuffle is true and the navigation mode is 'free', and in
\* 'sequential' mode the exposed children are in child index order.
C20_SelectionAndOrder ==
    (pc = "exposed" /\ ex.select < ex.n)
        => /\ Len(pe.exposed) = ex.select
           /\ Range(pe.exposed) \subseteq Children(ex.n)
           /\ \A i, j \in DOMAIN pe.exposed : i # j => pe.exposed[i] # pe.exposed[j]
           /\ ~ChildIndexOrder(pe.exposed)
                 => (ex.shuffle /\ ex.navigation = "free")
           /\ ex.navigation = "sequential" => ChildIndexOrder(pe.exposed)

\* A sequential node that shuffles drew two of its three children against
\* child index order and exposes them in child index order.
C20_Witness ==
    /\ pc = "exposed"
    /\ ex.n = 3
    /\ ex.select = 2
    /\ ex.shuffle
    /\ ex.navigation = "sequential"
    /\ ~ChildIndexOrder(pe.drawn)
    /\ Len(pe.exposed) = 2
    /\ ChildIndexOrder(pe.exposed)

-----------------------------------------------------------------------------
(* The claims about the life of one attempt, checked under Spec. *)

\* The attempt is Done: run() reached AwaitingSubmission (started_at is
\* recorded) and the finish() of a submission persisted its Result.
Done ==
    /\ pe.started_at # None
    /\ Len(db.results) >= 1
    /\ \A i \in DOMAIN db.results : db.results[i].started_at # None

\* C21: once the attempt is Done, no further step (a further Submit in
\* particular) persists another Result, invokes the completion callback again
\* or overwrites submitted_at.
C21_FinishOnce ==
    [][Done => /\ db'.results = db.results
               /\ cbCalls' = cbCalls
               /\ pe'.submitted_at = pe.submitted_at]_vars

\* C22: a Result persisted by the finish() of a Submit that was delivered once
\* WaitingForSubmission had been emitted, also while that message was being
\* handled, has a started_at that is recorded and not later than its
\* submitted_at.
C22_StartedBeforeFinishing ==
    [][(/\ pc # <<>>
        /\ Top.m = "finish"
        /\ Top.waited
        /\ Len(db'.results) > Len(db.results))
          => LET result == db'.results[Len(db'.results)]
             IN  /\ result.started_at # None
                 /\ result.started_at <= result.submitted_at]_vars

\* show_solution is set on every widget / on no widget of the exercise.
SolutionsShown == \A f \in Range(ex.ifields) : widgets[f]
SolutionsHidden == \A f \in FieldNames : ~widgets[f]

\* C23: in an attempt of run() and finish(), publish_solutions() not being
\* called from outside the runner, the solutions are revealed at one place.
\* With debug true they are revealed inside run(), before WaitingForSubmission,
\* and by no other step; with debug false they are hidden until a Submit
\* message is received, revealed by the first step of a finish(), and by no
\* other step.
C23_SolutionsRevealedOnce ==
    /\ [](~runner.direct
            => IF runner.debug
               THEN WaitingEmitted => SolutionsShown
               ELSE /\ runner.submits = 0 => SolutionsHidden
                    /\ pe.submitted_at # None => SolutionsShown)
    /\ [][(~runner'.direct /\ widgets' # widgets)
             => /\ SolutionsHidden
                /\ IF runner.debug
                   THEN Executing("run", "waiting")
                   ELSE Executing("finish", "answers")]_vars

\* Without debug, run() left the solutions hidden and the finish() of the
\* one Submit revealed them.
C23_Witness ==
    /\ ~runner.debug
    /\ ~runner.direct
    /\ Awaiting
    /\ runner.runs = 1
    /\ runner.submits = 1
    /\ last.op = "finish" /\ last.err = ""
    /\ SolutionsShown

-----------------------------------------------------------------------------
(* The claim about the dummy input, checked under SpecScore. *)

\* C24: in per-field scoring a field that the returned mapping addresses
\* scores 0.0 whatever the hook returned for it, when it has neither a
\* non-empty answer nor a default in the hook's signature; with a default or
\* a non-empty answer it scores the hook's value times its weight.
C24_DummyInputScoresZero ==
    (ex.scores.shape = "dict" /\ ScoresRead)
        => \A f \in Fields :
              ex.scores.entry[f] # "absent"
                  => last.scores[f] = IF Unanswered(f) THEN 0
                                      ELSE last.out.d[f] * WeightOf(f)

\* Of two fields without an answer, both given the score 1 by the hook, the
\* one with a default in the hook's signature keeps it weighted and the
\* other one scores 0.
C24_Witness ==
    /\ ex.scores.shape = "dict"
    /\ ScoresRead
    /\ ex.ifields = <<FieldA, FieldB>>
    /\ ex.scores.defaults = {FieldA}
    /\ pe.answers[FieldA] = None /\ pe.answers[FieldB] = None
    /\ ex.scores.entry[FieldA] # "absent" /\ ex.scores.entry[FieldB] # "absent"
    /\ last.out.d[FieldA] = 1 /\ last.out.d[FieldB] = 1
    /\ last.scores[FieldA] = WeightOf(FieldA)
    /\ last.scores[FieldB] = 0

====
